---- MODULE Spec2Model ----
(***************************************************************************)
(* Delegation activity feed of graph-metrics (DelegationActivity.tsx):      *)
(* the refresh cycle fetchDelegations (fetch -> merge -> enrich -> store),  *)
(* the ENS name resolver fetchEnsName with its cache, and the React state   *)
(* the component keeps.                                                     *)
(*                                                                         *)
(* JavaScript strings are sequences of one-character strings, so that      *)
(* toLowerCase, parseInt and Number are computed character by character.    *)
(***************************************************************************)
EXTENDS Integers, Sequences, FiniteSets, TLC

VARIABLES
    delegations,       \* useState<Delegation[]>([])            (the feed snapshot)
    totalDelegators,   \* useState<number | null>(null)
    activeDelegators,  \* useState<number | null>(null)
    loading,           \* useState(false)
    error,             \* useState<string | null>(null)
    renderMap,         \* the Map `ensCache` of the committed render: 0 while no
                       \* call has captured it, else its index in ensCache
    ensCache,          \* the Maps `new Map()` created by the renders some call captured
    pc,                \* per call of fetchDelegations: where the call stands
    mapOf,             \* per call: the ensCache its closure captured
    combinedEvents,    \* per call: the merged, capped batch (local const)
    lookups,           \* per call: the promises of the fetchEnsName calls of the batch
    mergeIn,           \* SpecMerge: the event payload handed to the merge
    mergeOut,          \* SpecMerge: whether the merge ran, and the batch it built
    page,              \* useState(1)
    filter,            \* useState("")
    sortBy,            \* useState("Updated")
    sortDirection,     \* useState<"asc" | "desc">("desc")
    timeFilter,        \* useState<"all" | "24h" | "48h" | "72h">("all")
    csvOut             \* SpecExport: whether exportCSV ran, whether it threw, and
                       \* the csvContent it handed to the download

vars == <<delegations, totalDelegators, activeDelegators, loading, error,
          renderMap, ensCache, pc, mapOf, combinedEvents, lookups,
          mergeIn, mergeOut, page, filter, sortBy, sortDirection, timeFilter,
          csvOut>>

ctlVars == <<delegations, totalDelegators, activeDelegators, loading, error,
             renderMap, ensCache, pc, mapOf, combinedEvents, lookups>>

mergeVars == <<mergeIn, mergeOut>>

viewVars == <<page, filter, sortBy, sortDirection, timeFilter>>

exportVars == <<csvOut>>

-----------------------------------------------------------------------------
(* Bounds *)

\* calls of fetchDelegations (the mount effect and the clicks on Refresh)
MaxRefresh == 3

\* calls whose name lookups are under way at the same time: the event source
\* answers a further call only once fewer are
MaxEnriching == 1

\* events of the deposit sequence and of the withdrawal sequence handed to the
\* merge alone
MaxDeposits == 2
MaxWithdrawns == 1

-----------------------------------------------------------------------------
(* JavaScript values *)

\* Strings are sequences of one-character strings; null and undefined, where a
\* string may stand, are the two sequences below (no string holds such an element).
Null == <<"null">>
Undefined == <<"undefined">>
\* Numbers are the naturals the feed handles; NaN and a null number are the two
\* negative values below, which no parse or count yields.
NaN == -1
NullNum == -2

Chars(s) == {s[i] : i \in DOMAIN s}

LowerChar(c) ==
    CASE c = "A" -> "a"
      [] c = "B" -> "b"
      [] c = "C" -> "c"
      [] c = "D" -> "d"
      [] c = "E" -> "e"
      [] c = "F" -> "f"
      [] OTHER -> c

\* String.prototype.toLowerCase
toLowerCase(s) == [i \in DOMAIN s |-> LowerChar(s[i])]

DigitChars == {"0", "1", "2", "3", "4", "5", "6", "7", "8", "9"}

DigitVal(c) ==
    CASE c = "0" -> 0 [] c = "1" -> 1 [] c = "2" -> 2 [] c = "3" -> 3
      [] c = "4" -> 4 [] c = "5" -> 5 [] c = "6" -> 6 [] c = "7" -> 7
      [] c = "8" -> 8 [] c = "9" -> 9

RECURSIVE DecimalValue(_)
DecimalValue(s) ==
    IF s = <<>> THEN 0
    ELSE 10 * DecimalValue(SubSeq(s, 1, Len(s) - 1)) + DigitVal(s[Len(s)])

RECURSIVE DigitPrefix(_)
DigitPrefix(s) ==
    IF s = <<>> \/ s[1] \notin DigitChars THEN <<>>
    ELSE <<s[1]>> \o DigitPrefix(Tail(s))

\* parseInt(string): the value of the leading decimal digits, NaN when there are none
parseInt(s) ==
    IF s = Undefined \/ s = Null THEN NaN
    ELSE IF DigitPrefix(s) = <<>> THEN NaN
    ELSE DecimalValue(DigitPrefix(s))

\* Number(value): the whole string must be a numeral; "" is 0, undefined is NaN
Number(s) ==
    IF s = Undefined THEN NaN
    ELSE IF s = Null THEN 0
    ELSE IF s = <<>> THEN 0
    ELSE IF Chars(s) \subseteq DigitChars THEN DecimalValue(s)
    ELSE NaN

\* Math.max(a, b)
MathMax(a, b) ==
    IF a = NaN \/ b = NaN THEN NaN
    ELSE IF a >= b THEN a ELSE b

-----------------------------------------------------------------------------
(* EventMerger: lines 178-215 of fetchDelegations *)

\* .slice(0, 100)
FeedCap == 100

\* stakeDelegateds.map(...): the Delegation built from a deposit event
DepositedEvent(event) ==
    [ id |-> event.id,
      delegator |-> [id |-> event.delegator, ensName |-> Undefined],
      indexer |-> [id |-> event.indexer, ensName |-> Undefined],
      stakedTokens |-> event.tokens,
      unstakedTokens |-> <<"0">>,
      lastDelegatedAt |-> parseInt(event.blockTimestamp),
      lastUndelegatedAt |-> 0,
      tx_hash |-> event.transactionHash ]

\* stakeDelegatedWithdrawns.map(...): the Delegation built from a withdrawal event
WithdrawnEvent(event) ==
    [ id |-> event.id,
      delegator |-> [id |-> event.delegator, ensName |-> Undefined],
      indexer |-> [id |-> event.indexer, ensName |-> Undefined],
      stakedTokens |-> <<"0">>,
      unstakedTokens |-> event.tokens,
      lastDelegatedAt |-> 0,
      lastUndelegatedAt |-> parseInt(event.blockTimestamp),
      tx_hash |-> event.transactionHash ]

\* Math.max(d.lastDelegatedAt, d.lastUndelegatedAt)
LatestTime(d) == MathMax(d.lastDelegatedAt, d.lastUndelegatedAt)

\* (a, b) => timeB - timeA; Array.prototype.sort reads a NaN result as +0
CompareTime(a, b) ==
    IF LatestTime(a) = NaN \/ LatestTime(b) = NaN THEN 0
    ELSE LatestTime(b) - LatestTime(a)

\* Array.prototype.sort is stable: an element goes behind every element that
\* does not compare greater than it.
Largest(S) == CHOOSE k \in S : \A j \in S : j <= k

InsertByTime(s, x) ==
    LET p == Largest({0} \cup {k \in DOMAIN s : CompareTime(s[k], x) <= 0})
    IN  SubSeq(s, 1, p) \o <<x>> \o SubSeq(s, p + 1, Len(s))

\* The elements s[lo], ..., s[hi] inserted into the sorted sequence acc, one
\* after the other
RECURSIVE InsertRangeByTime(_, _, _, _)
InsertRangeByTime(acc, s, lo, hi) ==
    IF lo > hi THEN acc
    ELSE IF lo = hi THEN InsertByTime(acc, s[lo])
    ELSE LET mid == (lo + hi) \div 2
             left == InsertRangeByTime(acc, s, lo, mid)
         IN  IF left = <<>> THEN <<>>     \* never: left holds s[lo]
             ELSE InsertRangeByTime(left, s, mid + 1, hi)

SortByTime(s) == InsertRangeByTime(<<>>, s, 1, Len(s))

\* Array.prototype.slice(0, n)
SliceTo(s, n) == SubSeq(s, 1, IF Len(s) < n THEN Len(s) ELSE n)

\* lines 178-215: map both sequences, concatenate, sort by time descending, cap
CombineEvents(data) ==
    LET depositedEvents == [i \in DOMAIN data.stakeDelegateds |->
                               DepositedEvent(data.stakeDelegateds[i])]
        withdrawnEvents == [i \in DOMAIN data.stakeDelegatedWithdrawns |->
                               WithdrawnEvent(data.stakeDelegatedWithdrawns[i])]
    IN  SliceTo(SortByTime(depositedEvents \o withdrawnEvents), FeedCap)

-----------------------------------------------------------------------------
(* Inputs: what the three upstream services answer *)

AddrLower == <<"a", "b">>
AddrMixed == <<"A", "b">>
AddrOther == <<"c", "d">>

NameOfAb == <<"a", ".", "e", "t", "h">>

\* The ENS subgraph: domains(where: {resolvedAddress: $address}, first: 1) for a
\* lower-cased address; AddrOther has no domain.
EnsDomains(address) ==
    IF address = AddrLower THEN <<[name |-> NameOfAb]>> ELSE <<>>

\* The decimal numeral of a natural number
RECURSIVE Digits(_)
Digits(n) ==
    IF n < 10 THEN <<CHOOSE c \in DigitChars : DigitVal(c) = n>>
    ELSE Digits(n \div 10) \o Digits(n % 10)

\* An event; its transaction hash is made of its id
StakeEvent(id, delegator, indexer, tokens, blockTimestamp) ==
    [ id |-> id, delegator |-> delegator, indexer |-> indexer, tokens |-> tokens,
      blockTimestamp |-> blockTimestamp, transactionHash |-> <<"f", id[1]>> \o Digits(id[2]) ]

EventD1 == StakeEvent(<<"d", 1>>, AddrLower, AddrOther, <<"5">>, <<"2">>)
EventD2 == StakeEvent(<<"d", 2>>, AddrMixed, AddrMixed, <<"7">>, <<"4">>)
EventW1 == StakeEvent(<<"w", 1>>, AddrOther, AddrOther, <<"3">>, <<"3">>)

EventsData(d, w) ==
    [kind |-> "data", stakeDelegateds |-> d, stakeDelegatedWithdrawns |-> w]

\* The event source: the request fails, the body is no JSON, the body carries
\* errors, the body lacks data or one of the two sequences, or it carries both.
EventsFailures ==
    { [kind |-> k, stakeDelegateds |-> <<>>, stakeDelegatedWithdrawns |-> <<>>] :
        k \in {"unreachable", "unparsable", "errors", "nodata",
               "noStakeDelegateds", "noStakeDelegatedWithdrawns"} }

\* The metrics source: as above, or a body without or with graphNetwork
StatsFailures ==
    { [kind |-> k, delegatorCount |-> Undefined, activeDelegatorCount |-> Undefined] :
        k \in {"unreachable", "unparsable", "errors", "noGraphNetwork"} }

StatsData(c) ==
    [kind |-> "graphNetwork", delegatorCount |-> c, activeDelegatorCount |-> c]

\* Spec: every kind of answer of both sources, over a feed of at most one record
EventsResponses ==
    EventsFailures \cup {EventsData(<<>>, <<>>), EventsData(<<EventD1>>, <<>>)}

StatsResponses == StatsFailures \cup {StatsData(<<"7">>)}

\* SpecEns: both sources answer well; feeds of one and of two records, in which
\* an address occurs twice, and in two spellings across feeds
EnsEventsResponses ==
    {EventsData(<<EventD2>>, <<>>), EventsData(<<EventD1>>, <<EventW1>>)}

EnsStatsResponses == {StatsData(<<"7">>)}

\* SpecEnrich: both sources answer well, with a feed of two records
EnrichEventsResponses == {EventsData(<<EventD1>>, <<EventW1>>)}

\* SpecStats: the event source answers well; the metrics source answers with
\* errors, without graphNetwork, with a graphNetwork that lacks one of the two
\* counts, or with both counts, which may be zero
StatsEventsResponses == {EventsData(<<EventD1>>, <<>>)}

MetricsResponses ==
    { s \in StatsFailures : s.kind \in {"errors", "noGraphNetwork"} }
    \cup { [kind |-> "graphNetwork", delegatorCount |-> Undefined,
                                      activeDelegatorCount |-> <<"7">>],
           [kind |-> "graphNetwork", delegatorCount |-> <<"7">>,
                                      activeDelegatorCount |-> Undefined],
           StatsData(<<"7">>), StatsData(<<"0">>) }

\* The ENS source, per lookup
EnsResponses == {"data", "unreachable", "unparsable", "errors"}

-----------------------------------------------------------------------------
(* Map<string, string | null> *)

EmptyMap == <<>>
MapHas(m, k) == k \in DOMAIN m
MapGet(m, k) == m[k]
MapSet(m, k, v) == [x \in (DOMAIN m) \cup {k} |-> IF x = k THEN v ELSE m[x]]

-----------------------------------------------------------------------------
(* NameResolver: fetchEnsName, lines 59-87 *)

\* The key under which fetchEnsName reads and writes ensCache
CacheKey(address) == address

\* Lines 60-72: up to the first await. A hit resolves at once with the cached
\* value; a miss posts the query and leaves the promise pending.
FetchEnsNameCall(cache, address) ==
    IF MapHas(cache, CacheKey(address))
    THEN [address |-> address, state |-> "cached",
          value |-> MapGet(cache, CacheKey(address))]
    ELSE [address |-> address, state |-> "pending", value |-> Undefined]

\* Line 79: data.data?.domains?.[0]?.name || null, for the posted variable
\* address.toLowerCase()
EnsNameOf(address) ==
    LET domains == EnsDomains(toLowerCase(address))
    IN  IF domains = <<>> THEN Null ELSE domains[1].name

\* Lines 74-86: what the call returns, and caches, once the answer is in
FetchEnsNameResult(address, response) ==
    IF response = "data" THEN EnsNameOf(address) ELSE Null

-----------------------------------------------------------------------------
(* FeedController: the component's state and fetchDelegations, lines 34-241 *)

Calls == 1 .. MaxRefresh

InFlight(r) == pc[r] \in {"fetching", "enriching"}

\* A Map no closure of a running call and no committed render refers to is garbage.
Collected(caches, newMapOf, newRenderMap) ==
    [m \in Calls |->
        IF m = newRenderMap \/ (\E r \in Calls : newMapOf[r] = m)
        THEN caches[m] ELSE EmptyMap]

\* err instanceof Error ? err.message : "Unknown error", behind the fixed prefix
ErrorMessage(message) == <<"Failed to load delegation activity: ", message>>

\* The error the try block of lines 126-230 throws for a pair of answers, or
\* Null when it throws none: Promise.all rejects with a failed request, then
\* each json() may throw, then the events payload is checked (lines 151, 173).
ThrownBy(events, stats) ==
    IF events.kind = "unreachable" \/ stats.kind = "unreachable"
        THEN ErrorMessage("Failed to fetch")
    ELSE IF events.kind = "unparsable" \/ stats.kind = "unparsable"
        THEN ErrorMessage("Unexpected token in JSON")
    ELSE IF events.kind = "errors"
        THEN ErrorMessage("Events query failed")
    ELSE IF events.kind \in {"nodata", "noStakeDelegateds", "noStakeDelegatedWithdrawns"}
        THEN ErrorMessage("Invalid API response structure for events")
    ELSE Null

\* Lines 156-170 are reached when no request failed, both bodies parsed and the
\* events body carries no errors.
ReachesStats(events, stats) ==
    /\ events.kind \notin {"unreachable", "unparsable", "errors"}
    /\ stats.kind \notin {"unreachable", "unparsable"}

\* Lines 157-170: the two counts set from the metrics answer
StatsCount(stats, count) ==
    IF stats.kind = "graphNetwork" THEN Number(count) ELSE 0

\* Lines 218-223: fetchEnsName is called for the delegator and the indexer of
\* every record before any answer can arrive; slot 2i-1 is the delegator of
\* record i, slot 2i its indexer.
EnsCalls(cache, batch) ==
    [i \in 1 .. 2 * Len(batch) |->
        FetchEnsNameCall(cache,
            IF i % 2 = 1 THEN batch[(i + 1) \div 2].delegator.id
                         ELSE batch[i \div 2].indexer.id)]

\* Lines 224-228 with the delegator's name put on the indexer as well
EnhancedSameName(d, delegatorEns, indexerEns) ==
    [d EXCEPT !.delegator.ensName = delegatorEns, !.indexer.ensName = delegatorEns]

\* Lines 224-228: the record with the two names the lookups returned
Enhanced(d, delegatorEns, indexerEns) ==
    [d EXCEPT !.delegator.ensName = delegatorEns, !.indexer.ensName = indexerEns]

EnhancedDelegations(batch, slots) ==
    [i \in DOMAIN batch |->
        Enhanced(batch[i], slots[2 * i - 1].value, slots[2 * i].value)]

\* Lines 218-230 without the await: the promises are not waited for
AllSettledNoWait(slots) == TRUE

\* A Promise.all that never resolves
AllSettledNever(slots) == FALSE

\* await Promise.all(...) of lines 218-230 returns once no lookup is pending
AllSettled(slots) == \A i \in DOMAIN slots : slots[i].state # "pending"

\* Promise.all hands the settled results over; what it leaves behind are the
\* promises still pending, of which there are none once it resolved
IsPending(slot) == slot.state = "pending"
Unsettled(slots) == SelectSeq(slots, IsPending)

Init ==
    /\ delegations = <<>>
    /\ totalDelegators = NullNum
    /\ activeDelegators = NullNum
    /\ loading = FALSE
    /\ error = Null
    /\ renderMap = 0
    /\ ensCache = [m \in Calls |-> EmptyMap]
    /\ pc = [r \in Calls |-> "idle"]
    /\ mapOf = [r \in Calls |-> 0]
    /\ combinedEvents = [r \in Calls |-> <<>>]
    /\ lookups = [r \in Calls |-> <<>>]
    /\ mergeIn = [stakeDelegateds |-> <<>>, stakeDelegatedWithdrawns |-> <<>>]
    /\ mergeOut = [done |-> FALSE, events |-> <<>>]
    /\ page = 1
    /\ filter = <<>>
    /\ sortBy = "Updated"
    /\ sortDirection = "desc"
    /\ timeFilter = "all"
    /\ csvOut = [done |-> FALSE, thrown |-> FALSE, content |-> <<>>, ids |-> <<>>]

\* Lines 90-92 and 131-142: call r starts in the closure of the committed render,
\* sets loading and clears error, posts both requests and awaits them.  The
\* component renders again, with a new Map, when a state value changed.
FetchDelegationsStart(r) ==
    /\ pc[r] = "idle"
    /\ \A q \in Calls : q < r => pc[q] # "idle"
    /\ pc' = [pc EXCEPT ![r] = "fetching"]
    /\ mapOf' = [mapOf EXCEPT ![r] = IF renderMap = 0 THEN r ELSE renderMap]
    /\ loading' = TRUE
    /\ error' = Null
    /\ renderMap' = IF loading = FALSE \/ error # Null THEN 0 ELSE mapOf'[r]
    /\ ensCache' = Collected(ensCache, mapOf', renderMap')
    /\ UNCHANGED <<delegations, totalDelegators, activeDelegators,
                   combinedEvents, lookups>>

\* Lines 277-279: useEffect(() => { fetchDelegations(); }, [])
Mount ==
    /\ pc[1] = "idle"
    /\ FetchDelegationsStart(1)
    /\ UNCHANGED <<mergeVars, viewVars, exportVars>>

\* Line 400: <button onClick={fetchDelegations}>, never disabled
ClickRefresh ==
    /\ pc[1] # "idle"
    /\ \E r \in Calls : FetchDelegationsStart(r)
    /\ UNCHANGED <<mergeVars, viewVars, exportVars>>

\* The catch block without line 238: the stale snapshot stays
CatchBlockKeepsFeed(r, message) ==
    /\ error' = message
    /\ delegations' = delegations
    /\ loading' = FALSE
    /\ pc' = [pc EXCEPT ![r] = "done"]

\* The catch block with a retry: the next call starts by itself
CatchBlockRetries(r, message) ==
    /\ error' = message
    /\ delegations' = <<>>
    /\ loading' = FALSE
    /\ pc' = [q \in Calls |->
                IF q = r THEN "done"
                ELSE IF pc[q] = "idle" /\ \A p \in Calls : p < q => pc[p] # "idle"
                     THEN "fetching" ELSE pc[q]]

\* Lines 234-240: the catch block
CatchBlock(r, message) ==
    /\ error' = message
    /\ delegations' = <<>>
    /\ loading' = FALSE
    /\ pc' = [pc EXCEPT ![r] = "done"]

\* Lines 131-230 after both requests settled: the answers are read, the counts
\* are set, the events are merged and every name lookup of the batch is
\* started; or the catch block runs.
RequestsSettle(r, events, stats) ==
    /\ pc[r] = "fetching"
    /\ totalDelegators' = IF ReachesStats(events, stats)
                          THEN StatsCount(stats, stats.delegatorCount)
                          ELSE totalDelegators
    /\ activeDelegators' = IF ReachesStats(events, stats)
                           THEN StatsCount(stats, stats.activeDelegatorCount)
                           ELSE activeDelegators
    /\ IF ThrownBy(events, stats) # Null
       THEN /\ CatchBlock(r, ThrownBy(events, stats))
            /\ mapOf' = [mapOf EXCEPT ![r] = 0]
            /\ renderMap' = 0
            /\ UNCHANGED <<combinedEvents, lookups>>
       ELSE /\ Cardinality({q \in Calls : pc[q] = "enriching"}) < MaxEnriching
            /\ pc' = [pc EXCEPT ![r] = "enriching"]
            /\ combinedEvents' = [combinedEvents EXCEPT ![r] = CombineEvents(events)]
            /\ lookups' = [lookups EXCEPT
                             ![r] = EnsCalls(ensCache[mapOf[r]], combinedEvents'[r])]
            /\ renderMap' = IF totalDelegators' # totalDelegators
                               \/ activeDelegators' # activeDelegators
                            THEN 0 ELSE renderMap
            /\ UNCHANGED <<mapOf, delegations, loading, error>>
    /\ ensCache' = Collected(ensCache, mapOf', renderMap')
    /\ UNCHANGED <<mergeVars, viewVars, exportVars>>

\* Lines 74-86: the answer to the lookup of slot i of call r arrives; the
\* result is cached and the promise resolves (a failure is caught and yields null).
EnsLookupSettle(r, i, response) ==
    /\ pc[r] = "enriching"
    /\ i \in DOMAIN lookups[r]
    /\ lookups[r][i].state = "pending"
    /\ LET address == lookups[r][i].address
           ensName == FetchEnsNameResult(address, response)
       IN  /\ ensCache' = [ensCache EXCEPT
                   ![mapOf[r]] = MapSet(@, CacheKey(address), ensName)]
           /\ lookups' = [lookups EXCEPT ![r][i] =
                   [address |-> address, state |-> "settled", value |-> ensName]]
    /\ UNCHANGED <<delegations, totalDelegators, activeDelegators, loading, error,
                   renderMap, pc, mapOf, combinedEvents>>
    /\ UNCHANGED <<mergeVars, viewVars, exportVars>>

\* Lines 230-233: Promise.all resolved; the snapshot is replaced
EnrichmentDone(r) ==
    /\ pc[r] = "enriching"
    /\ AllSettled(lookups[r])
    /\ delegations' = EnhancedDelegations(combinedEvents[r], lookups[r])
    /\ loading' = FALSE
    /\ pc' = [pc EXCEPT ![r] = "done"]
    /\ mapOf' = [mapOf EXCEPT ![r] = 0]
    /\ renderMap' = 0
    /\ combinedEvents' = [combinedEvents EXCEPT ![r] = <<>>]
    /\ lookups' = [lookups EXCEPT ![r] = Unsettled(lookups[r])]
    /\ ensCache' = Collected(ensCache, mapOf', renderMap')
    /\ UNCHANGED <<totalDelegators, activeDelegators, error>>
    /\ UNCHANGED <<mergeVars, viewVars, exportVars>>

\* The ENS source answers one of the posted lookups
EnsAnswers ==
    \E r \in Calls : \E i \in DOMAIN lookups[r], response \in EnsResponses :
        EnsLookupSettle(r, i, response)

NextWith(eventsResponses, statsResponses) ==
    \/ Mount
    \/ ClickRefresh
    \/ \E r \in Calls, events \in eventsResponses, stats \in statsResponses :
          RequestsSettle(r, events, stats)
    \/ EnsAnswers
    \/ \E r \in Calls : EnrichmentDone(r)

\* The controller under every kind of answer of the two sources
Next == NextWith(EventsResponses, StatsResponses)

Spec == Init /\ [][Next]_vars

\* Every external call settles: the two requests of a call are answered or
\* fail, every posted lookup is answered or fails, and the continuation of a
\* resolved Promise.all runs
ExternalCallsSettle ==
    /\ \A r \in Calls :
          WF_vars(\E events \in EventsResponses, stats \in StatsResponses :
                     RequestsSettle(r, events, stats))
    /\ WF_vars(EnsAnswers)
    /\ \A r \in Calls : WF_vars(EnrichmentDone(r))

SpecLive == Init /\ [][Next]_vars /\ ExternalCallsSettle

\* The resolver and the enricher under feeds that repeat addresses
NextEns == NextWith(EnsEventsResponses, EnsStatsResponses)

SpecEns == Init /\ [][NextEns]_vars

\* The enricher under a feed of two records
NextEnrich == NextWith(EnrichEventsResponses, EnsStatsResponses)

SpecEnrich == Init /\ [][NextEnrich]_vars

\* The controller under every kind of answer of the metrics source
NextStats == NextWith(StatsEventsResponses, MetricsResponses)

SpecStats == Init /\ [][NextStats]_vars

-----------------------------------------------------------------------------
(* The merge alone, over event sequences of every content *)

\* tokens and blockTimestamp as the event source may send them: zero, a
\* numeral, a numeral followed by other text, no numeral
TokenStrings == {<<"0">>, <<"5">>, <<"x">>}
TimeStrings == {<<"0">>, <<"3">>, <<"4", "x">>, <<"x">>}

EventSeqs(prefix, n) ==
    UNION { { [i \in 1 .. k |->
                 StakeEvent(<<prefix, i>>, AddrLower, AddrOther, f[i][1], f[i][2])] :
              f \in [1 .. k -> TokenStrings \X TimeStrings] } : k \in 0 .. n }

\* n events in the order the source sends them here, oldest first: event i
\* carries the block timestamp i
BulkEvents(prefix, n) ==
    [i \in 1 .. n |->
        StakeEvent(<<prefix, i>>, AddrLower, AddrOther, <<"5">>, Digits(i))]

\* Payloads with one event more than the feed holds
BulkInputs ==
    { EventsData(BulkEvents("d", FeedCap + 1), <<>>),
      EventsData(BulkEvents("d", FeedCap), BulkEvents("w", 1)) }

MergeInputs ==
    { EventsData(d, w) : d \in EventSeqs("d", MaxDeposits),
                         w \in EventSeqs("w", MaxWithdrawns) }
    \cup BulkInputs

InitMerge ==
    /\ delegations = <<>>
    /\ totalDelegators = NullNum
    /\ activeDelegators = NullNum
    /\ loading = FALSE
    /\ error = Null
    /\ renderMap = 0
    /\ ensCache = [m \in Calls |-> EmptyMap]
    /\ pc = [r \in Calls |-> "idle"]
    /\ mapOf = [r \in Calls |-> 0]
    /\ combinedEvents = [r \in Calls |-> <<>>]
    /\ lookups = [r \in Calls |-> <<>>]
    /\ mergeIn \in MergeInputs
    /\ mergeOut = [done |-> FALSE, events |-> <<>>]
    /\ page = 1
    /\ filter = <<>>
    /\ sortBy = "Updated"
    /\ sortDirection = "desc"
    /\ timeFilter = "all"
    /\ csvOut = [done |-> FALSE, thrown |-> FALSE, content |-> <<>>, ids |-> <<>>]

\* Lines 178-215 applied to the payload
Merge ==
    /\ ~mergeOut.done
    /\ mergeOut' = [done |-> TRUE, events |-> CombineEvents(mergeIn)]
    /\ UNCHANGED mergeIn
    /\ UNCHANGED <<ctlVars, viewVars, exportVars>>

NextMerge == Merge

SpecMerge == InitMerge /\ [][NextMerge]_vars

-----------------------------------------------------------------------------
(* The view of a render: lines 281-358 *)

\* JavaScript's comparisons and product on numbers: a comparison with NaN is
\* false, a product with NaN is NaN
Geq(a, b) == a # NaN /\ b # NaN /\ a >= b
Gt(a, b) == a # NaN /\ b # NaN /\ a > b
Lt(a, b) == a # NaN /\ b # NaN /\ a < b
Times(a, b) == IF a = NaN \/ b = NaN THEN NaN ELSE a * b

\* String.prototype.includes
Includes(s, sub) ==
    \E i \in 0 .. Len(s) - Len(sub) : SubSeq(s, i + 1, i + Len(sub)) = sub

\* Lines 282-285 without toLowerCase: the letter case counts
MatchesFilterCaseSensitive(d, text) ==
    \/ Includes(d.indexer.id, text)
    \/ IF d.indexer.ensName \in {Null, Undefined} THEN FALSE
       ELSE Includes(d.indexer.ensName, text)

\* Lines 282-285: the predicate of the text filter
MatchesFilter(d, text) ==
    \/ Includes(toLowerCase(d.indexer.id), toLowerCase(text))
    \/ IF d.indexer.ensName \in {Null, Undefined} THEN FALSE
       ELSE Includes(toLowerCase(d.indexer.ensName), toLowerCase(text))

Filtered(snapshot, text) ==
    LET Keep(d) == MatchesFilter(d, text)
    IN  SelectSeq(snapshot, Keep)

\* Lines 289-301 with every case returning true
InTimeRangeAlways(d, range, now) == TRUE

\* Lines 289-301: the predicate of the time filter, at the clock reading now
InTimeRange(d, range, now) ==
    LET latestTime == Times(MathMax(d.lastDelegatedAt, d.lastUndelegatedAt), 1000)
    IN  CASE range = "24h" -> Geq(latestTime, now - 24 * 60 * 60 * 1000)
          [] range = "48h" -> Geq(latestTime, now - 48 * 60 * 60 * 1000)
          [] range = "72h" -> Geq(latestTime, now - 72 * 60 * 60 * 1000)
          [] OTHER -> TRUE

TimeFilteredOf(snapshot, text, range, now) ==
    LET Keep(d) == InTimeRange(d, range, now)
    IN  SelectSeq(Filtered(snapshot, text), Keep)

\* const timeFiltered of the render that reads the clock at now
TimeFiltered(now) == TimeFilteredOf(delegations, filter, timeFilter, now)

\* 1e18, the smallest units in one GRT, scaled down to 10: TLC's integers end
\* at 2^31 - 1.  The amounts of the view's inputs are scaled alike.
WeiPerGRT == 10

\* The binary digits a quotient keeps behind the point: a double keeps 52
\* significant ones, scaled down to 3.  A display amount is counted in units of
\* 2^-FracBits GRT.
FracBits == 3

\* tokens / 1e18 in floating point: the quotient rounded to the nearest
\* representable amount, ties to even
Divide(n, d) ==
    LET num == n * 2 ^ FracBits
        q == num \div d
        rest == num % d
    IN  IF 2 * rest < d THEN q
        ELSE IF 2 * rest > d THEN q + 1
        ELSE IF q % 2 = 0 THEN q ELSE q + 1

\* Lines 304-310 with the guard isNaN left out: acc + NaN is NaN
\* Lines 305 and 313: the conditions under which a record enters a total
CountedDelegated(d) == Geq(d.lastDelegatedAt, d.lastUndelegatedAt)
CountedUndelegated(d) == Gt(d.lastUndelegatedAt, d.lastDelegatedAt)

AddDelegatedNoGuard(acc, d) ==
    IF Geq(d.lastDelegatedAt, d.lastUndelegatedAt)
    THEN LET tokens == Number(d.stakedTokens)
         IN  IF tokens = NaN \/ acc = NaN THEN NaN
             ELSE acc + Divide(tokens, WeiPerGRT)
    ELSE acc

\* Lines 304-310: the callback of the reduce of totalDelegatedGRT
AddDelegated(acc, d) ==
    IF CountedDelegated(d)
    THEN LET tokens == Number(d.stakedTokens)
         IN  IF tokens = NaN THEN acc ELSE acc + Divide(tokens, WeiPerGRT)
    ELSE acc

\* Lines 312-318: the callback of the reduce of totalUndelegatedGRT
AddUndelegated(acc, d) ==
    IF CountedUndelegated(d)
    THEN LET tokens == Number(d.unstakedTokens)
         IN  IF tokens = NaN THEN acc ELSE acc + Divide(tokens, WeiPerGRT)
    ELSE acc

\* Array.prototype.reduce over s[lo], ..., s[hi], from the left
RECURSIVE Reduce(_, _, _, _, _)
Reduce(side, acc, s, lo, hi) ==
    IF lo > hi THEN acc
    ELSE IF lo = hi
         THEN IF side = "delegated" THEN AddDelegated(acc, s[lo])
                                    ELSE AddUndelegated(acc, s[lo])
    ELSE LET mid == (lo + hi) \div 2
             left == Reduce(side, acc, s, lo, mid)
         IN  IF left = NullNum THEN left     \* never: no amount is null
             ELSE Reduce(side, left, s, mid + 1, hi)

TotalDelegatedGRT(view) == Reduce("delegated", 0, view, 1, Len(view))
TotalUndelegatedGRT(view) == Reduce("undelegated", 0, view, 1, Len(view))

\* Line 320
NetChange(view) == TotalDelegatedGRT(view) - TotalUndelegatedGRT(view)

\* The UTF-16 code unit of the characters the view compares
CharCode(c) ==
    CASE c = "." -> 46
      [] c \in DigitChars -> 48 + DigitVal(c)
      [] c = "A" -> 65 [] c = "B" -> 66 [] c = "C" -> 67 [] c = "D" -> 68
      [] c = "E" -> 69 [] c = "F" -> 70 [] c = "U" -> 85
      [] c = "a" -> 97 [] c = "b" -> 98 [] c = "c" -> 99 [] c = "d" -> 100
      [] c = "e" -> 101 [] c = "f" -> 102 [] c = "g" -> 103 [] c = "h" -> 104
      [] c = "i" -> 105 [] c = "l" -> 108 [] c = "n" -> 110 [] c = "o" -> 111
      [] c = "t" -> 116 [] c = "x" -> 120

\* s < t on strings: by code units, a proper prefix first
RECURSIVE StringLess(_, _)
StringLess(s, t) ==
    IF t = <<>> THEN FALSE
    ELSE IF s = <<>> THEN TRUE
    ELSE IF s[1] # t[1] THEN CharCode(s[1]) < CharCode(t[1])
    ELSE StringLess(Tail(s), Tail(t))

\* parseFloat(string) on the amounts of the feed, which carry no sign, point
\* or exponent: the value of the leading digits, NaN when there are none
parseFloat(s) ==
    IF s = Undefined \/ s = Null THEN NaN
    ELSE IF DigitPrefix(s) = <<>> THEN NaN
    ELSE DecimalValue(DigitPrefix(s))

TypeDelegation == <<"D", "e", "l", "e", "g", "a", "t", "i", "o", "n">>
TypeUndelegation == <<"U", "n", "d", "e", "l", "e", "g", "a", "t", "i", "o", "n">>

\* Lines 327-351: valA / valB, the sort value of a record under sortBy
SortValue(d, key) ==
    CASE key = "Type" ->
            IF Geq(d.lastDelegatedAt, d.lastUndelegatedAt)
            THEN TypeDelegation ELSE TypeUndelegation
      [] key = "Delegator" -> d.delegator.id
      [] key = "Indexer" -> d.indexer.id
      [] key = "Amount" ->
            parseFloat(IF Geq(d.lastDelegatedAt, d.lastUndelegatedAt)
                       THEN d.stakedTokens ELSE d.unstakedTokens)
      [] OTHER -> MathMax(d.lastDelegatedAt, d.lastUndelegatedAt)

\* valA < valB: on strings for Type, Delegator and Indexer, on numbers else
ValueLess(a, b, key) ==
    IF key \in {"Type", "Delegator", "Indexer"}
    THEN StringLess(SortValue(a, key), SortValue(b, key))
    ELSE Lt(SortValue(a, key), SortValue(b, key))

\* Line 353: (valA < valB ? -1 : 1) * (sortDirection === "asc" ? 1 : -1)
Comparator(a, b, key, direction) ==
    (IF ValueLess(a, b, key) THEN -1 ELSE 1) * (IF direction = "asc" THEN 1 ELSE -1)

\* Array.prototype.sort leaves to the engine which element of a pair it hands
\* to the comparator first, and the comparator of line 353 never returns 0:
\* an engine moves the new element x in front of e when comparator(e, x) > 0,
\* or when comparator(x, e) < 0.
Engines == {"earlierFirst", "laterFirst"}

StaysBehind(engine, e, x, key, direction) ==
    IF engine = "earlierFirst" THEN Comparator(e, x, key, direction) <= 0
                               ELSE Comparator(x, e, key, direction) >= 0

\* x inserted into the sorted sequence s: behind the last element it stays behind
InsertSorted(engine, s, x, key, direction) ==
    LET p == Largest({0} \cup {k \in DOMAIN s :
                                  StaysBehind(engine, s[k], x, key, direction)})
    IN  SubSeq(s, 1, p) \o <<x>> \o SubSeq(s, p + 1, Len(s))

RECURSIVE InsertRangeSorted(_, _, _, _, _, _, _)
InsertRangeSorted(engine, acc, s, lo, hi, key, direction) ==
    IF lo > hi THEN acc
    ELSE IF lo = hi THEN InsertSorted(engine, acc, s[lo], key, direction)
    ELSE LET mid == (lo + hi) \div 2
             left == InsertRangeSorted(engine, acc, s, lo, mid, key, direction)
         IN  IF left = <<>> THEN <<>>     \* never: left holds s[lo]
             ELSE InsertRangeSorted(engine, left, s, mid + 1, hi, key, direction)

\* Lines 323-354: [...view].sort(comparator), as the engine sorts
SortView(engine, view, key, direction) ==
    InsertRangeSorted(engine, <<>>, view, 1, Len(view), key, direction)

\* const sorted of the render that reads the clock at now
Sorted(engine, now) == SortView(engine, TimeFiltered(now), sortBy, sortDirection)

\* const PAGE_SIZE = 50
PAGE_SIZE == 50

\* Array.prototype.slice(start, end) for 0 <= start
Slice(s, start, end) ==
    SubSeq(s, start + 1, IF end < Len(s) THEN end ELSE Len(s))

\* Line 357 read as a 0-based page number
PaginatedFromZero(view, p) == Slice(view, p * PAGE_SIZE, (p + 1) * PAGE_SIZE)

\* Line 357: sorted.slice((page - 1) * PAGE_SIZE, page * PAGE_SIZE)
Paginated(view, p) == Slice(view, (p - 1) * PAGE_SIZE, p * PAGE_SIZE)

\* Line 358: Math.ceil(sorted.length / PAGE_SIZE)
TotalPages(view) == (Len(view) + PAGE_SIZE - 1) \div PAGE_SIZE

-----------------------------------------------------------------------------
(* The view under the user's selections, over a snapshot a refresh wrote *)

\* Date.now() of a render, in milliseconds: four days after the epoch, and one
\* millisecond later
NowValues == {345600000, 345600001}

\* Block timestamps, in seconds, of events 12, 24, 36, 60 and 80 hours old
HoursAgo(h) == Digits(345600 - 3600 * h)

\* A feed with deposits and withdrawals of every age, with equal amounts,
\* equal addresses, an address in two spellings and an amount that is no number
ViewMixed ==
    EventsData(
        << StakeEvent(<<"d", 1>>, AddrLower, AddrOther, <<"1">>, HoursAgo(12)),
           StakeEvent(<<"d", 2>>, AddrMixed, AddrMixed, <<"2">>, HoursAgo(24)),
           StakeEvent(<<"d", 3>>, AddrLower, AddrOther, <<"x">>, HoursAgo(36)) >>,
        << StakeEvent(<<"w", 1>>, AddrOther, AddrLower, <<"2">>, HoursAgo(60)),
           StakeEvent(<<"w", 2>>, AddrOther, AddrOther, <<"4">>, HoursAgo(80)) >>)

\* A feed with events of one block, and events whose timestamp is no number
ViewUnparsed ==
    EventsData(
        << StakeEvent(<<"d", 1>>, AddrLower, AddrOther, <<"1">>, <<"x">>),
           StakeEvent(<<"d", 2>>, AddrMixed, AddrLower, <<"2">>, HoursAgo(12)) >>,
        << StakeEvent(<<"w", 1>>, AddrOther, AddrMixed, <<"4">>, <<"x">>),
           StakeEvent(<<"w", 2>>, AddrOther, AddrOther, <<"2">>, HoursAgo(12)) >>)

\* A feed of more than one page: one deposit per hour, and a withdrawal
ViewLong ==
    EventsData(
        [i \in 1 .. PAGE_SIZE + 1 |->
            StakeEvent(<<"d", i>>, AddrLower, AddrOther, <<"1">>, HoursAgo(i))],
        << StakeEvent(<<"w", 1>>, AddrOther, AddrMixed, <<"2">>, HoursAgo(30)) >>)

\* The snapshot a refresh writes for a payload when every lookup is answered
SnapshotOf(data) ==
    LET batch == CombineEvents(data)
    IN  [i \in DOMAIN batch |->
            Enhanced(batch[i], EnsNameOf(batch[i].delegator.id),
                               EnsNameOf(batch[i].indexer.id))]

ViewSnapshots ==
    { SnapshotOf(data) :
        data \in {EventsData(<<>>, <<>>), ViewMixed, ViewUnparsed, ViewLong} }

\* What the user types into the filter box
FilterTexts == {<<>>, <<"A">>, <<"E", "t">>, <<"d">>}

\* Line 464: the column headers
Columns == {"Type", "Delegator", "Indexer", "Transaction", "Amount", "Updated"}

\* Line 378: the time filter buttons
TimeRanges == {"all", "24h", "48h", "72h"}

\* The state once the refresh of the mount has written its snapshot
InitView ==
    /\ delegations \in ViewSnapshots
    /\ totalDelegators = 7
    /\ activeDelegators = 7
    /\ loading = FALSE
    /\ error = Null
    /\ renderMap = 0
    /\ ensCache = [m \in Calls |-> EmptyMap]
    /\ pc = [r \in Calls |-> IF r = 1 THEN "done" ELSE "idle"]
    /\ mapOf = [r \in Calls |-> 0]
    /\ combinedEvents = [r \in Calls |-> <<>>]
    /\ lookups = [r \in Calls |-> <<>>]
    /\ mergeIn = [stakeDelegateds |-> <<>>, stakeDelegatedWithdrawns |-> <<>>]
    /\ mergeOut = [done |-> FALSE, events |-> <<>>]
    /\ page = 1
    /\ filter = <<>>
    /\ sortBy = "Updated"
    /\ sortDirection = "desc"
    /\ timeFilter = "all"
    /\ csvOut = [done |-> FALSE, thrown |-> FALSE, content |-> <<>>, ids |-> <<>>]

\* Lines 459-470: the table, with its headers, is rendered for a non-empty view
TableShown == \E now \in NowValues : Len(TimeFiltered(now)) > 0

\* Lines 361-364 with line 363 left out: the direction stays as it is
ToggleSortKeepsDirection(column) ==
    /\ TableShown
    /\ sortBy' = column
    /\ sortDirection' = sortDirection
    /\ UNCHANGED <<page, filter, timeFilter>>
    /\ UNCHANGED <<ctlVars, mergeVars, exportVars>>

\* Lines 361-364 and 465: toggleSort(column), on a click on a header
ToggleSort(column) ==
    /\ TableShown
    /\ sortBy' = column
    /\ sortDirection' = IF sortBy = column /\ sortDirection = "asc"
                        THEN "desc" ELSE "asc"
    /\ UNCHANGED <<page, filter, timeFilter>>
    /\ UNCHANGED <<ctlVars, mergeVars, exportVars>>

\* Line 382: setTimeFilter(key)
SetTimeFilter(key) ==
    /\ timeFilter' = key
    /\ UNCHANGED <<page, filter, sortBy, sortDirection>>
    /\ UNCHANGED <<ctlVars, mergeVars, exportVars>>

\* Lines 394-397: onChange of the filter box
ChangeFilter(value) ==
    /\ filter' = value
    /\ page' = 1
    /\ UNCHANGED <<sortBy, sortDirection, timeFilter>>
    /\ UNCHANGED <<ctlVars, mergeVars, exportVars>>

\* Lines 528-541: a click on one of the page buttons the render shows
ClickPage(p) ==
    /\ \E now \in NowValues :
          LET totalPages == TotalPages(TimeFiltered(now))
          IN  /\ Len(TimeFiltered(now)) > 0
              /\ p <= (IF totalPages < 10 THEN totalPages ELSE 10)
    /\ page' = p
    /\ UNCHANGED <<filter, sortBy, sortDirection, timeFilter>>
    /\ UNCHANGED <<ctlVars, mergeVars, exportVars>>

ClickHeader == \E column \in Columns : ToggleSort(column)
ClickTimeRange == \E key \in TimeRanges : SetTimeFilter(key)
TypeFilter == \E value \in FilterTexts : ChangeFilter(value)
ClickPageButton == \E p \in 1 .. 10 : ClickPage(p)

NextView == ClickHeader \/ ClickTimeRange \/ TypeFilter \/ ClickPageButton

SpecView == InitView /\ [][NextView]_vars

-----------------------------------------------------------------------------
(* CsvExporter: exportCSV, lines 244-274, and formatAmount, lines 367-368 *)

\* Array.prototype.join over parts[lo], ..., parts[hi]
RECURSIVE JoinRange(_, _, _, _)
JoinRange(parts, sep, lo, hi) ==
    IF lo > hi THEN <<>>
    ELSE IF lo = hi THEN parts[lo]
    ELSE LET mid == (lo + hi) \div 2
             left == JoinRange(parts, sep, lo, mid)
         IN  IF Len(left) < 0 THEN left     \* never
             ELSE left \o sep \o JoinRange(parts, sep, mid + 1, hi)

Join(parts, sep) == JoinRange(parts, sep, 1, Len(parts))

\* Two and three digits, with leading zeros
Pad2(n) == IF n < 10 THEN <<"0">> \o Digits(n) ELSE Digits(n)
Pad3(n) == IF n < 10 THEN <<"0", "0">> \o Digits(n)
           ELSE IF n < 100 THEN <<"0">> \o Digits(n) ELSE Digits(n)

\* The integer digits in groups of three, as the locale en-US writes them
RECURSIVE Grouped(_)
Grouped(n) ==
    IF n < 1000 THEN Digits(n)
    ELSE Grouped(n \div 1000) \o <<",">> \o Pad3(n % 1000)

\* toLocaleString("en-US", {minimumFractionDigits: 2, maximumFractionDigits: 2})
\* of an amount counted in units of 2^-FracBits: grouped integer digits, a
\* point, the fraction rounded to hundredths, halves away from zero
ToLocaleString(amount) ==
    LET unit == 2 ^ FracBits
        hundredths == (2 * 100 * (amount % unit) + unit) \div (2 * unit)
    IN  IF hundredths = 100
        THEN Grouped(amount \div unit + 1) \o <<".", "0", "0">>
        ELSE Grouped(amount \div unit) \o <<".">> \o Pad2(hundredths)

\* Lines 367-368: (Number(amt) / 1e18).toLocaleString(...); NaN is written "NaN"
formatAmount(amt) ==
    IF Number(amt) = NaN THEN <<"N", "a", "N">>
    ELSE ToLocaleString(Divide(Number(amt), WeiPerGRT))

\* Date.prototype.toISOString for a time of January 1970, in milliseconds
ToISOString(ms) ==
    LET seconds == ms \div 1000
    IN  <<"1", "9", "7", "0", "-", "0", "1", "-">> \o Pad2(seconds \div 86400 + 1)
        \o <<"T">> \o Pad2((seconds % 86400) \div 3600)
        \o <<":">> \o Pad2((seconds % 3600) \div 60)
        \o <<":">> \o Pad2(seconds % 60)
        \o <<".">> \o Pad3(ms % 1000) \o <<"Z">>

\* `"${value || ""}"` and `"${value}"`
Quoted(value) ==
    <<"\"">> \o (IF value \in {Null, Undefined} THEN <<>> ELSE value) \o <<"\"">>

\* Line 245
CsvHeaders ==
    << <<"T", "y", "p", "e">>,
       <<"D", "e", "l", "e", "g", "a", "t", "o", "r">>,
       <<"D", "e", "l", "e", "g", "a", "t", "o", "r", " ", "E", "N", "S">>,
       <<"I", "n", "d", "e", "x", "e", "r">>,
       <<"I", "n", "d", "e", "x", "e", "r", " ", "E", "N", "S">>,
       <<"T", "r", "a", "n", "s", "a", "c", "t", "i", "o", "n">>,
       <<"A", "m", "o", "u", "n", "t">>,
       <<"U", "p", "d", "a", "t", "e", "d">> >>

\* Line 250: new Date((isDelegation ? lastDelegatedAt : lastUndelegatedAt) * 1000),
\* in milliseconds; NaN for an invalid date
UpdatedAt(d) ==
    Times(IF Geq(d.lastDelegatedAt, d.lastUndelegatedAt)
          THEN d.lastDelegatedAt ELSE d.lastUndelegatedAt, 1000)

\* Lines 249 and 254: the Type field of a record
CsvType(d) ==
    IF Geq(d.lastDelegatedAt, d.lastUndelegatedAt)
    THEN TypeDelegation ELSE TypeUndelegation

\* Lines 249-262: the row of a record
CsvRow(d) ==
    LET isDelegation == Geq(d.lastDelegatedAt, d.lastUndelegatedAt)
        amount == IF isDelegation THEN d.stakedTokens ELSE d.unstakedTokens
    IN  Join(<< CsvType(d),
                Quoted(d.delegator.id),
                Quoted(d.delegator.ensName),
                Quoted(d.indexer.id),
                Quoted(d.indexer.ensName),
                Quoted(d.tx_hash),
                formatAmount(amount),
                ToISOString(UpdatedAt(d)) >>, <<",">>)

\* The rows alone, without the header line
CsvContentRowsOnly(view) ==
    Join([i \in DOMAIN view |-> CsvRow(view[i])], <<"\n">>)

\* Lines 246-264: the header line and the rows, joined by line feeds
CsvContent(view) ==
    Join(<<Join(CsvHeaders, <<",">>)>> \o [i \in DOMAIN view |-> CsvRow(view[i])],
         <<"\n">>)

\* Line 261: toISOString throws a RangeError for an invalid date, and
\* exportCSV with it: no document is made
Throws(view) == \E i \in DOMAIN view : UpdatedAt(view[i]) = NaN

\* Lines 244-274: a click on Export CSV in the render that sorted as engine
\* does and read the clock at now; ids records which view was exported
ExportCSV ==
    /\ ~csvOut.done
    /\ \E now \in NowValues, engine \in Engines :
          LET sorted == Sorted(engine, now)
          IN  csvOut' = IF Throws(sorted)
                        THEN [done |-> TRUE, thrown |-> TRUE, content |-> <<>>,
                              ids |-> [i \in DOMAIN sorted |-> sorted[i].id]]
                        ELSE [done |-> TRUE, thrown |-> FALSE,
                              content |-> CsvContent(sorted),
                              ids |-> [i \in DOMAIN sorted |-> sorted[i].id]]
    /\ UNCHANGED <<ctlVars, mergeVars, viewVars>>

\* A feed with an amount of a thousand GRT and a smaller one
ViewLarge ==
    EventsData(
        << StakeEvent(<<"d", 1>>, AddrLower, AddrOther,
                      Digits(1000 * WeiPerGRT), HoursAgo(12)),
           StakeEvent(<<"d", 2>>, AddrMixed, AddrLower, <<"2", "5">>, HoursAgo(36)) >>,
        << StakeEvent(<<"w", 1>>, AddrOther, AddrMixed, <<"1", "2">>, HoursAgo(60)) >>)

ExportSnapshots ==
    { SnapshotOf(data) :
        data \in {EventsData(<<>>, <<>>), ViewMixed, ViewUnparsed, ViewLarge} }

\* The state in which the user clicks Export CSV: a snapshot on the screen,
\* under any filter, time range and sort chosen before, or the feed of more
\* than one page on its first or second page
InitExport ==
    /\ totalDelegators = 7
    /\ activeDelegators = 7
    /\ loading = FALSE
    /\ error = Null
    /\ renderMap = 0
    /\ ensCache = [m \in Calls |-> EmptyMap]
    /\ pc = [r \in Calls |-> IF r = 1 THEN "done" ELSE "idle"]
    /\ mapOf = [r \in Calls |-> 0]
    /\ combinedEvents = [r \in Calls |-> <<>>]
    /\ lookups = [r \in Calls |-> <<>>]
    /\ mergeIn = [stakeDelegateds |-> <<>>, stakeDelegatedWithdrawns |-> <<>>]
    /\ mergeOut = [done |-> FALSE, events |-> <<>>]
    /\ \/ /\ delegations \in ExportSnapshots
          /\ page = 1
          /\ filter \in FilterTexts
          /\ sortBy \in Columns
          /\ sortDirection \in {"asc", "desc"}
          /\ timeFilter \in TimeRanges
       \/ /\ delegations = SnapshotOf(ViewLong)
          /\ page \in {1, 2}
          /\ filter = <<>>
          /\ sortBy = "Updated"
          /\ sortDirection \in {"asc", "desc"}
          /\ timeFilter = "all"
    /\ csvOut = [done |-> FALSE, thrown |-> FALSE, content |-> <<>>, ids |-> <<>>]

NextExport == ExportCSV

SpecExport == InitExport /\ [][NextExport]_vars

-----------------------------------------------------------------------------
(* The other consumers of the classification *)

\* Lines 473 and 483-485: the type shown in the table row of a record
TableRowType(d) ==
    IF Geq(d.lastDelegatedAt, d.lastUndelegatedAt)
    THEN TypeDelegation ELSE TypeUndelegation

\* DelegationActivityChart.tsx, lines 34-52: the series of its day the record
\* is added to; toISOString of line 37 throws for a time that is no number
ChartBucket(d) ==
    LET isDelegation == Geq(d.lastDelegatedAt, d.lastUndelegatedAt)
        timestamp == IF isDelegation THEN d.lastDelegatedAt ELSE d.lastUndelegatedAt
    IN  IF Times(timestamp, 1000) = NaN THEN "thrown"
        ELSE IF isDelegation THEN "delegated" ELSE "undelegated"

-----------------------------------------------------------------------------
(* Properties *)

\* What a step of a call is: its requests settle into the catch block, into
\* the enrichment, or its enrichment ends with the write of the snapshot.
Fails(r) == pc[r] = "fetching" /\ pc'[r] = "done"
StartsEnriching(r) == pc[r] = "fetching" /\ pc'[r] = "enriching"
Succeeds(r) == pc[r] = "enriching" /\ pc'[r] = "done"

ExternalLookups(r, address) ==
    {i \in DOMAIN lookups[r] :
        lookups[r][i].address = address /\ lookups[r][i].state # "cached"}

Addresses == {AddrLower, AddrMixed, AddrOther}

\* C1: within the enrichment pass of a call, every address of the batch is
\* looked up externally at most once, however many name slots hold it.
C1_OneLookupPerAddress ==
    \A r \in Calls : \A address \in Addresses :
        Cardinality(ExternalLookups(r, address)) <= 1

\* C2: a call triggered earlier never writes the snapshot, the error or the
\* loading flag after a call triggered later has written them.
C2_NoStaleWrite ==
    [][\A r \in Calls : (Fails(r) \/ Succeeds(r)) =>
          \A q \in Calls : q > r => pc[q] # "done"]_vars

\* C3: when the event source answers with both sequences and the metrics
\* source fails in any way, the call does not fail: it goes on to enrich the
\* batch and sets no error.
C3_MetricsFailureTolerated ==
    [][\A r \in Calls : \A events \in EventsResponses : \A stats \in StatsFailures :
          (events.kind = "data" /\ RequestsSettle(r, events, stats)) =>
              (StartsEnriching(r) /\ error' = error)]_vars

\* C4: when the event source is unreachable, answers with errors or lacks one
\* of the two sequences, the call ends failed: the snapshot is empty, an error
\* message is set and loading is false.
EventSourceFailures ==
    {e \in EventsFailures :
        e.kind \in {"unreachable", "errors", "noStakeDelegateds",
                    "noStakeDelegatedWithdrawns"}}

C4_EventFailureEndsFailed ==
    [][\A r \in Calls : \A events \in EventSourceFailures : \A stats \in StatsResponses :
          RequestsSettle(r, events, stats) =>
              /\ Fails(r)
              /\ delegations' = <<>>
              /\ error' # Null
              /\ loading' = FALSE]_vars

\* C4 witness: a call failed on an events payload that lacks a sequence, after
\* the metrics were read, and left the failed state behind.
C4_Witness ==
    /\ \E r \in Calls : pc[r] = "done"
    /\ error = ErrorMessage("Invalid API response structure for events")
    /\ totalDelegators = 7
    /\ delegations = <<>>
    /\ loading = FALSE

\* C5: when a call succeeds and leaves no call in flight, no error message is
\* set, whatever calls failed before it.
C5_ReadyClearsError ==
    [][\A r \in Calls :
          (Succeeds(r) /\ \A q \in Calls : pc'[q] \notin {"fetching", "enriching"})
              => error' = Null]_vars

\* C6: the snapshot is written only once every lookup of the batch has
\* settled: every record of the snapshot carries both names (a name or null,
\* never the not-yet-enriched undefined), and a call that wrote the snapshot
\* has no lookup outstanding.
C6_SnapshotAfterAllLookups ==
    /\ \A k \in DOMAIN delegations :
          /\ delegations[k].delegator.ensName # Undefined
          /\ delegations[k].indexer.ensName # Undefined
    /\ \A r \in Calls : pc[r] = "done" => lookups[r] = <<>>

\* C6 witness: the snapshot holds a batch of two records with a resolved name
C6_Witness ==
    /\ Len(delegations) = 2
    /\ \E k \in DOMAIN delegations : delegations[k].delegator.ensName = NameOfAb

\* C7: a lookup that fails yields null for its own slot and changes nothing
\* else (no other slot, no call's progress, no error, no snapshot); a lookup
\* that is answered yields the name of its own address; and the call ends with
\* the whole batch in the snapshot, each slot carrying its own lookup's result.
C7_LookupFailureIsolated ==
    [][/\ \A r \in Calls : \A i \in DOMAIN lookups[r] : \A response \in EnsResponses :
             EnsLookupSettle(r, i, response) =>
                /\ lookups'[r][i].value =
                      IF response = "data" THEN EnsNameOf(lookups[r][i].address)
                      ELSE Null
                /\ \A q \in Calls : \A j \in DOMAIN lookups[q] :
                      <<q, j>> # <<r, i>> => lookups'[q][j] = lookups[q][j]
                /\ pc' = pc /\ error' = error /\ loading' = loading
                /\ delegations' = delegations
       /\ \A r \in Calls : Succeeds(r) =>
             /\ Len(delegations') = Len(combinedEvents[r])
             /\ \A k \in DOMAIN combinedEvents[r] :
                   /\ delegations'[k].id = combinedEvents[r][k].id
                   /\ delegations'[k].delegator.ensName = lookups[r][2 * k - 1].value
                   /\ delegations'[k].indexer.ensName = lookups[r][2 * k].value
             /\ error' = error
             /\ loading' = FALSE]_vars

\* C7 witness: a batch of two records is in the snapshot, no error is set, and
\* the address that has a name shows none: its lookup failed.
C7_Witness ==
    /\ Len(delegations) = 2
    /\ error = Null
    /\ loading = FALSE
    /\ \E k \in DOMAIN delegations :
          /\ delegations[k].delegator.id = AddrLower
          /\ delegations[k].delegator.ensName = Null

\* C8: while a call is in flight, an entry of the ensCache it uses is never
\* removed and never overwritten with a different value.
C8_CacheAppendOnly ==
    [][\A r \in Calls : (InFlight(r) /\ pc'[r] \in {"fetching", "enriching"}) =>
          \A k \in DOMAIN ensCache[mapOf[r]] :
              /\ k \in DOMAIN ensCache'[mapOf[r]]
              /\ ensCache'[mapOf[r]][k] = ensCache[mapOf[r]][k]]_vars

\* C9: a name slot whose address is in the cache under another letter case is
\* a cache hit: it returns the cached value and posts no lookup.
C9_CacheKeyedByLowerCase ==
    [][\A r \in Calls : StartsEnriching(r) =>
          \A i \in DOMAIN lookups'[r] : \A k \in DOMAIN ensCache[mapOf[r]] :
              toLowerCase(k) = toLowerCase(lookups'[r][i].address) =>
                  /\ lookups'[r][i].state = "cached"
                  /\ lookups'[r][i].value = ensCache[mapOf[r]][k]]_vars

NonZero(tokens) == Number(tokens) # 0

\* C10: every merged record has exactly one non-zero amount and the matching
\* non-zero timestamp: a record of a deposit event has lastDelegatedAt > 0 and
\* lastUndelegatedAt = 0, a record of a withdrawal event the reverse.
C10_OneSidePerRecord ==
    mergeOut.done =>
        \A k \in DOMAIN mergeOut.events :
            LET d == mergeOut.events[k]
            IN  IF d.id[1] = "d"
                THEN /\ NonZero(d.stakedTokens) /\ ~NonZero(d.unstakedTokens)
                     /\ d.lastDelegatedAt > 0 /\ d.lastUndelegatedAt = 0
                ELSE /\ NonZero(d.unstakedTokens) /\ ~NonZero(d.stakedTokens)
                     /\ d.lastUndelegatedAt > 0 /\ d.lastDelegatedAt = 0

\* C11: the merged batch holds at most the cap of 100 records and its
\* effective timestamps max(lastDelegatedAt, lastUndelegatedAt) never increase
\* from a record to the next, whatever the two event sequences hold.
C11_CappedAndOrdered ==
    mergeOut.done =>
        /\ Len(mergeOut.events) <= FeedCap
        /\ \A k \in 1 .. Len(mergeOut.events) - 1 :
              Geq(LatestTime(mergeOut.events[k]), LatestTime(mergeOut.events[k + 1]))

MergedIds == {mergeOut.events[k].id : k \in DOMAIN mergeOut.events}

Unparsable(event) ==
    parseInt(event.blockTimestamp) = NaN \/ Number(event.tokens) = NaN

\* C12: an event whose timestamp or amount is no number is dropped by the
\* merge: the batch holds no record built from it.
C12_UnparsableDropped ==
    mergeOut.done =>
        /\ \A i \in DOMAIN mergeIn.stakeDelegateds :
              Unparsable(mergeIn.stakeDelegateds[i]) =>
                  mergeIn.stakeDelegateds[i].id \notin MergedIds
        /\ \A i \in DOMAIN mergeIn.stakeDelegatedWithdrawns :
              Unparsable(mergeIn.stakeDelegatedWithdrawns[i]) =>
                  mergeIn.stakeDelegatedWithdrawns[i].id \notin MergedIds

\* The position of the record with the given id in a sequence of records
PositionOf(view, id) == CHOOSE k \in DOMAIN view : view[k].id = id

EqualKeys(a, b, key) ==
    /\ SortValue(a, key) = SortValue(b, key)
    /\ SortValue(a, key) # NaN

\* C13: under every sort key and direction the sort is stable, records with
\* equal sort values keeping the order they have in the filtered view, and
\* idempotent, the sort of its own output being that output.
C13_SortStableIdempotent ==
    \A now \in NowValues : \A engine \in Engines :
        LET view == TimeFiltered(now)
            sorted == SortView(engine, view, sortBy, sortDirection)
        IN  /\ \A i, j \in DOMAIN view :
                  (i < j /\ EqualKeys(view[i], view[j], sortBy)) =>
                      PositionOf(sorted, view[i].id) < PositionOf(sorted, view[j].id)
            /\ SortView(engine, sorted, sortBy, sortDirection) = sorted

\* C14: a click on the header of the selected sort key flips the direction
\* and keeps the key; a click on another header selects that key, ascending.
C14_ToggleSort ==
    [][\A column \in Columns : ToggleSort(column) =>
          IF column = sortBy
          THEN /\ sortBy' = sortBy
               /\ sortDirection' = (IF sortDirection = "asc" THEN "desc" ELSE "asc")
          ELSE /\ sortBy' = column
               /\ sortDirection' = "asc"]_vars

\* C14 witness: another key was selected and its header clicked again
C14_Witness ==
    /\ sortBy = "Amount"
    /\ sortDirection = "desc"
    /\ delegations # <<>>

Records(view) == {view[k] : k \in DOMAIN view}

\* sub occurs in s when letter case is ignored
ContainsIgnoringCase(s, sub) ==
    \E i \in 0 .. Len(s) - Len(sub) :
        \A j \in 1 .. Len(sub) : LowerChar(s[i + j]) = LowerChar(sub[j])

HasName(party) == party.ensName \notin {Null, Undefined}

PassesText(d, text) ==
    \/ ContainsIgnoringCase(d.indexer.id, text)
    \/ HasName(d.indexer) /\ ContainsIgnoringCase(d.indexer.ensName, text)

WindowHours(range) ==
    CASE range = "24h" -> 24 [] range = "48h" -> 48 [] range = "72h" -> 72

\* The effective timestamp, in seconds, lies within the window that ends at now
PassesWindow(d, range, now) ==
    \/ range = "all"
    \/ /\ LatestTime(d) # NaN
       /\ LatestTime(d) * 1000 >= now - WindowHours(range) * 3600000

\* C15: whatever sort key and direction are selected, the sorted view holds
\* exactly the records of the snapshot that pass the text filter and lie
\* within the time window, each once: a set that does not refer to the sort.
C15_FiltersIntersect ==
    \A now \in NowValues : \A engine \in Engines :
        LET passing == {d \in Records(delegations) :
                          PassesText(d, filter) /\ PassesWindow(d, timeFilter, now)}
        IN  /\ Records(Sorted(engine, now)) = passing
            /\ Len(Sorted(engine, now)) = Cardinality(passing)

\* C15 witness: a text filter and a time window are set under another sort
\* key, and the view is smaller than what either filter alone lets pass
C15_Witness ==
    /\ filter = <<"A">>
    /\ timeFilter = "48h"
    /\ sortBy = "Type"
    /\ \E now \in NowValues :
          /\ Len(TimeFiltered(now)) = 1
          /\ Len(Filtered(delegations, filter)) = 2
          /\ Len(TimeFilteredOf(delegations, <<>>, timeFilter, now)) = 3

\* C16: the text filter keeps, in their order, exactly the records whose
\* indexer address or indexer name contains the filter string, letter case
\* ignored; a record without indexer name is matched on the address alone, and
\* the empty filter keeps every record.
C16_TextFilter ==
    /\ LET Expected(d) == PassesText(d, filter)
       IN  Filtered(delegations, filter) = SelectSeq(delegations, Expected)
    /\ \A k \in DOMAIN delegations :
          ~HasName(delegations[k].indexer) =>
              (delegations[k] \in Records(Filtered(delegations, filter))
                  <=> ContainsIgnoringCase(delegations[k].indexer.id, filter))
    /\ filter = <<>> => Filtered(delegations, filter) = delegations

\* C16 witness: the filter "Et" keeps a record for its indexer name a.eth
\* alone, and drops the records whose indexer has no name
C16_Witness ==
    /\ filter = <<"E", "t">>
    /\ \E d \in Records(Filtered(delegations, filter)) :
          /\ d.indexer.ensName = NameOfAb
          /\ ~ContainsIgnoringCase(d.indexer.id, filter)
    /\ \E d \in Records(delegations) :
          ~HasName(d.indexer) /\ d \notin Records(Filtered(delegations, filter))

\* amounts[lo] + ... + amounts[hi]
RECURSIVE SumRange(_, _, _)
SumRange(amounts, lo, hi) ==
    IF lo > hi THEN 0
    ELSE IF lo = hi THEN amounts[lo]
    ELSE SumRange(amounts, lo, (lo + hi) \div 2)
            + SumRange(amounts, (lo + hi) \div 2 + 1, hi)

IsDelegationRecord(d) == Geq(d.lastDelegatedAt, d.lastUndelegatedAt)

\* The display amount of a token string; what is no number counts as zero
DisplayAmount(tokens) ==
    IF Number(tokens) = NaN THEN 0 ELSE Divide(Number(tokens), WeiPerGRT)

SumOfStaked(view) ==
    SumRange([k \in DOMAIN view |->
                 IF IsDelegationRecord(view[k])
                 THEN DisplayAmount(view[k].stakedTokens) ELSE 0], 1, Len(view))

SumOfUnstakedOfOthers(view) ==
    SumRange([k \in DOMAIN view |->
                 IF IsDelegationRecord(view[k])
                 THEN 0 ELSE DisplayAmount(view[k].unstakedTokens)], 1, Len(view))

\* C17: over the view that passes both filters, totalDelegated is the sum of
\* stakedTokens of the delegation records (lastDelegatedAt >= lastUndelegatedAt),
\* totalUndelegated the sum of unstakedTokens of all other records, netChange
\* their difference, and all three are zero for an empty view.
C17_Aggregates ==
    \A now \in NowValues :
        LET view == TimeFiltered(now)
        IN  /\ TotalDelegatedGRT(view) = SumOfStaked(view)
            /\ TotalUndelegatedGRT(view) = SumOfUnstakedOfOthers(view)
            /\ NetChange(view) = TotalDelegatedGRT(view) - TotalUndelegatedGRT(view)
            /\ view = <<>> =>
                  /\ TotalDelegatedGRT(view) = 0
                  /\ TotalUndelegatedGRT(view) = 0
                  /\ NetChange(view) = 0

\* The amount in smallest units; what is no number counts as zero
UnitAmount(tokens) == IF Number(tokens) = NaN THEN 0 ELSE Number(tokens)

\* C18: a total is the conversion, done once, of the sum of the amounts in
\* smallest units: no amount is converted before it is added.
C18_ConvertedOnce ==
    \A now \in NowValues :
        LET view == TimeFiltered(now)
        IN  /\ TotalDelegatedGRT(view) =
                  Divide(SumRange([k \in DOMAIN view |->
                                      IF IsDelegationRecord(view[k])
                                      THEN UnitAmount(view[k].stakedTokens) ELSE 0],
                                  1, Len(view)), WeiPerGRT)
            /\ TotalUndelegatedGRT(view) =
                  Divide(SumRange([k \in DOMAIN view |->
                                      IF Gt(view[k].lastUndelegatedAt, view[k].lastDelegatedAt)
                                      THEN UnitAmount(view[k].unstakedTokens) ELSE 0],
                                  1, Len(view)), WeiPerGRT)

NumericAmounts(d) ==
    Number(d.stakedTokens) # NaN /\ Number(d.unstakedTokens) # NaN

\* C19: a record whose amount is no number adds nothing to the totals and
\* does not spoil them: the totals of a view are numbers, and equal the totals
\* of the view without such records.
C19_NonNumericIgnored ==
    \A now \in NowValues :
        LET view == TimeFiltered(now)
            numeric == SelectSeq(view, NumericAmounts)
        IN  /\ TotalDelegatedGRT(view) = TotalDelegatedGRT(numeric)
            /\ TotalUndelegatedGRT(view) = TotalUndelegatedGRT(numeric)
            /\ TotalDelegatedGRT(view) >= 0
            /\ TotalUndelegatedGRT(view) >= 0

\* C19 witness: the view holds a deposit whose amount is no number between
\* deposits with amounts, and the total counts the latter
C19_Witness ==
    /\ timeFilter = "48h"
    /\ \E now \in NowValues :
          LET view == TimeFiltered(now)
          IN  /\ \E k \in DOMAIN view :
                    /\ IsDelegationRecord(view[k])
                    /\ Number(view[k].stakedTokens) = NaN
              /\ TotalDelegatedGRT(view) > 0

\* C20: pages are numbered from 1 and hold 50 records: page p is the records
\* at the positions (p-1)*50+1 .. p*50 of the sorted view, as far as they
\* exist; a page beyond totalPages is empty; totalPages is the least number of
\* pages that hold the view, 0 for an empty view.
C20_Pagination ==
    \A now \in NowValues : \A engine \in Engines :
        LET sorted == Sorted(engine, now)
            paginated == Paginated(sorted, page)
            positions == {k \in DOMAIN sorted :
                            (page - 1) * 50 + 1 <= k /\ k <= page * 50}
            totalPages == TotalPages(sorted)
        IN  /\ page >= 1
            /\ Len(paginated) = Cardinality(positions)
            /\ \A k \in DOMAIN paginated : paginated[k] = sorted[(page - 1) * 50 + k]
            /\ page > totalPages => paginated = <<>>
            /\ totalPages * 50 >= Len(sorted)
            /\ totalPages > 0 => (totalPages - 1) * 50 < Len(sorted)
            /\ sorted = <<>> => totalPages = 0

\* C20 witness: page 2 was opened on a view of two pages, then the time
\* window left a view of one page: page 2 is empty
C20_Witness ==
    /\ page = 2
    /\ \E now \in NowValues : \E engine \in Engines :
          /\ Len(Sorted(engine, now)) > 0
          /\ TotalPages(Sorted(engine, now)) = 1
          /\ Paginated(Sorted(engine, now), page) = <<>>

-----------------------------------------------------------------------------
(* The exported document as a reader of CSV sees it *)

\* The lines of a document: the pieces between its line feeds
Lines(doc) ==
    LET feeds == {p \in DOMAIN doc : doc[p] = "\n"}
        starts == {1} \cup {p + 1 : p \in feeds}
        StartOf(k) == CHOOSE b \in starts : Cardinality({c \in starts : c < b}) = k - 1
        EndOf(b) == CHOOSE e \in feeds \cup {Len(doc) + 1} :
                        /\ e >= b
                        /\ \A f \in feeds : f >= b => e <= f
    IN  [k \in 1 .. Cardinality(starts) |-> SubSeq(doc, StartOf(k), EndOf(StartOf(k)) - 1)]

\* The number of fields of a line: a comma separates fields unless it stands
\* between an opening and a closing double quote
FieldCount(line) ==
    1 + Cardinality({p \in DOMAIN line :
            /\ line[p] = ","
            /\ Cardinality({q \in 1 .. p - 1 : line[q] = "\""}) % 2 = 0})

\* The transaction hash of the record with an id, as the export quotes it
QuotedHashOf(id) == <<"\"", "f", id[1]>> \o Digits(id[2]) \o <<"\"">>

\* C21: the export of a view of N records is a document of exactly N+1 lines,
\* a header line and then one line per record of the whole sorted, filtered
\* view, in the view's order, whatever page is shown; an empty view gives
\* the header line alone.
C21_ExportLines ==
    csvOut.done =>
        /\ ~csvOut.thrown
        /\ LET lines == Lines(csvOut.content)
           IN  /\ Len(lines) = Len(csvOut.ids) + 1
               /\ \A i \in DOMAIN csvOut.ids :
                     Includes(lines[i + 1], QuotedHashOf(csvOut.ids[i]))

\* The header row the specification gives
ClaimedHeaderRow ==
    <<"T", "y", "p", "e", ",">>
       \o <<"D", "e", "l", "e", "g", "a", "t", "o", "r", ",">>
       \o <<"D", "e", "l", "e", "g", "a", "t", "o", "r", " ", "N", "a", "m", "e", ",">>
       \o <<"I", "n", "d", "e", "x", "e", "r", ",">>
       \o <<"I", "n", "d", "e", "x", "e", "r", " ", "N", "a", "m", "e", ",">>
       \o <<"T", "r", "a", "n", "s", "a", "c", "t", "i", "o", "n", ",">>
       \o <<"A", "m", "o", "u", "n", "t", ",">>
       \o <<"U", "p", "d", "a", "t", "e", "d">>

\* The header row of line 245
ExportedHeaderRow ==
    <<"T", "y", "p", "e", ",">>
       \o <<"D", "e", "l", "e", "g", "a", "t", "o", "r", ",">>
       \o <<"D", "e", "l", "e", "g", "a", "t", "o", "r", " ", "E", "N", "S", ",">>
       \o <<"I", "n", "d", "e", "x", "e", "r", ",">>
       \o <<"I", "n", "d", "e", "x", "e", "r", " ", "E", "N", "S", ",">>
       \o <<"T", "r", "a", "n", "s", "a", "c", "t", "i", "o", "n", ",">>
       \o <<"A", "m", "o", "u", "n", "t", ",">>
       \o <<"U", "p", "d", "a", "t", "e", "d">>

\* C22 as stated: the first line of every exported document is the header row
\* Type,Delegator,Delegator Name,Indexer,Indexer Name,Transaction,Amount,Updated.
C22_HeaderAsStated ==
    (csvOut.done /\ ~csvOut.thrown) => Lines(csvOut.content)[1] = ClaimedHeaderRow

\* C22: the first line of every exported document is the header row
\* Type,Delegator,Delegator ENS,Indexer,Indexer ENS,Transaction,Amount,Updated,
\* whatever the exported view.
C22_HeaderRow ==
    (csvOut.done /\ ~csvOut.thrown) => Lines(csvOut.content)[1] = ExportedHeaderRow

C22_Witness ==
    /\ csvOut.done
    /\ ~csvOut.thrown
    /\ Len(csvOut.ids) > PAGE_SIZE
    /\ page = 2

\* C23: every data row of an exported document parses into exactly the 8
\* fields of the header, amounts of 1000 GRT or more included.
C23_EightFields ==
    (csvOut.done /\ ~csvOut.thrown) =>
        LET lines == Lines(csvOut.content)
        IN  \A k \in 2 .. Len(lines) : FieldCount(lines[k]) = Len(CsvHeaders)

\* C24: a record is a delegation exactly when lastDelegatedAt >= lastUndelegatedAt,
\* ties included, and every consumer classifies it so: the table row, the CSV
\* Type field, the Type sort key, the total it is counted in and the chart bucket.
C24_OneClassification ==
    \A i \in DOMAIN delegations :
        LET d == delegations[i]
            isDelegation == Geq(d.lastDelegatedAt, d.lastUndelegatedAt)
            type == IF isDelegation THEN TypeDelegation ELSE TypeUndelegation
        IN  /\ TableRowType(d) = type
            /\ CsvType(d) = type
            /\ SortValue(d, "Type") = type
            /\ CountedDelegated(d) <=> isDelegation
            /\ CountedUndelegated(d) <=> ~isDelegation
            /\ ChartBucket(d) = IF isDelegation THEN "delegated" ELSE "undelegated"

\* A metric the answer of the metrics source does not give
MetricUnavailable(stats, count) ==
    stats.kind \in {"errors", "noGraphNetwork"} \/ count = Undefined

\* C25: when the metrics answer carries errors, has no graphNetwork or lacks a
\* count, the metric is set to a value that no real count can be (no natural
\* number), and the call goes on to the activity feed.
C25_UnavailableSentinel ==
    [][\A r \in Calls : \A events \in StatsEventsResponses : \A stats \in MetricsResponses :
          RequestsSettle(r, events, stats) =>
              /\ StartsEnriching(r)
              /\ MetricUnavailable(stats, stats.delegatorCount) =>
                    totalDelegators' \notin Nat
              /\ MetricUnavailable(stats, stats.activeDelegatorCount) =>
                    activeDelegators' \notin Nat]_vars

\* The calls a step starts
Started == {r \in Calls : pc[r] = "idle" /\ pc'[r] = "fetching"}

\* C26: a call starts only with the mount or with a click on Refresh, one
\* call per trigger: no step of a running call, and no call that ends failed,
\* starts another; and once a call has ended, ready or failed, a click on
\* Refresh starts a new call.
C26_RefreshOnlyOnTrigger ==
    [][/\ Started # {} => (Mount \/ ClickRefresh)
       /\ (Mount \/ ClickRefresh) => Cardinality(Started) = 1
       /\ \A r \in Calls : Fails(r) => Started = {}
       /\ ((\E r \in Calls : pc[r] = "done") /\ (\E r \in Calls : pc[r] = "idle"))
             => ENABLED ClickRefresh]_vars

\* C26 witness: the call of the mount failed before it read the metrics, and
\* a click on Refresh started the second call
C26_Witness ==
    /\ pc[1] = "done"
    /\ pc[2] = "fetching"
    /\ totalDelegators = NullNum
    /\ delegations = <<>>
    /\ loading = TRUE

\* C27: whenever the sorted view is not empty, the page number lies within
\* 1 .. totalPages and the page shown holds a record.
C27_PageInRange ==
    \A now \in NowValues : \A engine \in Engines :
        LET sorted == Sorted(engine, now)
        IN  sorted # <<>> =>
               /\ page \in 1 .. TotalPages(sorted)
               /\ Paginated(sorted, page) # <<>>

\* C28: while a call is in flight, with requests or lookups not yet settled,
\* loading is true: loading is false only when no call is in flight.
C28_LoadingWhileInFlight ==
    (\E r \in Calls : InFlight(r)) => loading = TRUE

\* The name slots of a snapshot: the delegator and the indexer of every record
NameSlots(snapshot) ==
    {snapshot[k].delegator : k \in DOMAIN snapshot}
        \cup {snapshot[k].indexer : k \in DOMAIN snapshot}

\* C29: in every snapshot, two name slots that hold the same address carry
\* the same name, be it a name or none.
C29_SameAddressSameName ==
    \A a, b \in NameSlots(delegations) : a.id = b.id => a.ensName = b.ensName

\* C30: when every external call settles, every call that was started ends,
\* ready or failed, with loading false; loading never stays true for ever.
C30_EveryRefreshEnds ==
    /\ \A r \in Calls : InFlight(r) ~> (pc[r] = "done" /\ loading = FALSE)
    /\ (loading = TRUE) ~> (loading = FALSE)

\* C30 witness: two calls have ended, the later one ready with a snapshot
C30_Witness ==
    /\ pc[1] = "done"
    /\ pc[2] = "done"
    /\ loading = FALSE
    /\ error = Null
    /\ delegations # <<>>

====
